---------------------------- MODULE Spec2Model ----------------------------
(***************************************************************************)
(* A model of rename_pdfs.py: the filename sanitizer, the title extractor, *)
(* the collision probe and the batch loop that renames every PDF file of a *)
(* directory after its title.                                              *)
(*                                                                         *)
(* A Python str is a sequence of characters; a character is a one-letter   *)
(* TLA+ string, and a character outside ASCII is written by its code point *)
(* ("U+3000").  An Optional[str] is a record [some, val].                  *)
(***************************************************************************)
EXTENDS Integers, Sequences, FiniteSets, TLC

VARIABLES
    \* sanitize_filename applied to an input, then to its own result
    sanPc, sanIn, sanOut, sanTwice,
    \* extract_pdf_title applied to a document
    exPc, exDoc, exOut,
    \* find_available_filename applied to a directory listing
    prPc, prDir, prBase, prOut,
    \* rename_pdfs_in_folder: the directory, the glob snapshot and the counters
    pc, is_dir, dir, pdf_files, rename_count, fail_count,
    \* history of the batch (not program state): the number of the run, the
    \* directory at the start and at the enumeration, the last iteration, each
    \* file's outcomes in this run, and whether no rename has failed so far
    run, dir0, enumDir, last, outcome, cleanRun

sanVars == <<sanPc, sanIn, sanOut, sanTwice>>
exVars == <<exPc, exDoc, exOut>>
prVars == <<prPc, prDir, prBase, prOut>>
batchVars == <<pc, is_dir, dir, pdf_files, rename_count, fail_count,
               run, dir0, enumDir, last, outcome, cleanRun>>
vars == <<sanVars, exVars, prVars, batchVars>>

-----------------------------------------------------------------------------
(* Strings *)

\* the characters for which str.isspace() holds; str.strip() and the regex
\* class \s of a str pattern both use it
Whitespace ==
    {"\t", "\n", "U+000B", "\f", "\r", "U+001C", "U+001D", "U+001E", "U+001F",
     " ", "U+0085", "U+00A0", "U+1680", "U+2000", "U+2001", "U+2002", "U+2003",
     "U+2004", "U+2005", "U+2006", "U+2007", "U+2008", "U+2009", "U+200A",
     "U+2028", "U+2029", "U+202F", "U+205F", "U+3000"}

\* the character class of line 25: \ / * ? : " < > | and the full-width
\* brackets, ASCII parentheses and typographic quotes
Banned ==
    {"\\", "/", "*", "?", ":", "\"", "<", ">", "|",
     "U+300A", "U+300B", "U+FF08", "U+FF09", "(", ")",
     "U+2018", "U+2019", "U+201C", "U+201D"}

Digits == {"0", "1", "2", "3", "4", "5", "6", "7", "8", "9"}

Repeat(c, n) == [i \in 1..n |-> c]

\* the only element of a one-element set; {e(x) : x \in {v}} names the value
\* of v once, the way a local variable of the program does
Only(S) == CHOOSE x \in S : TRUE

SeqsUpTo(S, n) == UNION {[1..k -> S] : k \in 0..n}

RECURSIVE SkipLeft(_, _, _)
\* the first index at or after i whose character is not in Class
SkipLeft(s, i, Class) ==
    IF i <= Len(s) /\ s[i] \in Class THEN SkipLeft(s, i + 1, Class) ELSE i

RECURSIVE SkipRight(_, _, _)
\* the last index at or before j whose character is not in Class
SkipRight(s, j, Class) ==
    IF j >= 1 /\ s[j] \in Class THEN SkipRight(s, j - 1, Class) ELSE j

\* str.rstrip(chars)
RStrip(str, Class) ==
    Only({SubSeq(s, 1, SkipRight(s, Len(s), Class)) : s \in {str}})

\* str.strip(): leading and trailing whitespace removed
Strip(str) ==
    Only({SubSeq(r, SkipLeft(r, 1, Whitespace), Len(r)) :
            r \in {RStrip(str, Whitespace)}})

\* re.sub('[Class]', '', s)
RemoveAll(s, Class) == SelectSeq(s, LAMBDA c : c \notin Class)

\* re.sub('[Class]+', ' ', s): every maximal run of Class becomes one space
\* the indices of s that are not in Class or that begin a run of Class
RunStarts(s, Class) ==
    SelectSeq([i \in 1..Len(s) |-> i],
              LAMBDA i : s[i] \notin Class \/ i = 1 \/ s[i - 1] \notin Class)

CollapseRuns(str, Class) ==
    Only({Only({[k \in 1..Len(starts) |->
                    IF s[starts[k]] \in Class THEN " " ELSE s[starts[k]]] :
                starts \in {RunStarts(s, Class)}}) :
          s \in {str}})

\* str.isdigit() on the characters the model uses
IsDigit(s) == Len(s) > 0 /\ \A i \in 1..Len(s) : s[i] \in Digits

RECURSIVE DecimalDigits(_)
\* f"{counter}": the decimal digits of a natural number
DecimalDigits(n) ==
    LET d == <<"0", "1", "2", "3", "4", "5", "6", "7", "8", "9">>[(n % 10) + 1]
    IN  IF n < 10 THEN <<d>> ELSE DecimalDigits(n \div 10) \o <<d>>

-----------------------------------------------------------------------------
(* sanitize_filename *)

max_len == 150

untitled == <<"u", "n", "t", "i", "t", "l", "e", "d">>

\* line 25 with its two steps swapped: strip first, then remove the class
StripThenRemove(title) == RemoveAll(Strip(title), Banned)

\* line 25: re.sub(r'[\\/*?:"<>|...]', '', title).strip()
RemoveBanned(title) == Strip(RemoveAll(title, Banned))

\* lines 32-33
Truncate(str) ==
    Only({IF Len(s) > max_len THEN Strip(SubSeq(s, 1, max_len)) ELSE s : s \in {str}})

\* line 35 stripping only the trailing periods
TrimPeriodsOnly(s) == RStrip(s, {"."})

\* line 35: clean_title.rstrip('. ')
TrimTrailing(s) == RStrip(s, {".", " "})

\* line 27: re.sub(r'\s+', ' ', clean_title)
CollapseWhitespace(s) == CollapseRuns(s, Whitespace)

\* line 29: re.sub(r'[\n\r]+', ' ', clean_title)
CollapseLineBreaks(s) == CollapseRuns(s, {"\n", "\r"})

\* lines 37-39
OrUntitled(str) == Only({IF s = <<>> THEN untitled ELSE s : s \in {str}})

sanitize_filename(title) ==
    OrUntitled(TrimTrailing(Truncate(CollapseLineBreaks(CollapseWhitespace(
        RemoveBanned(title))))))

-----------------------------------------------------------------------------
(* The sanitizer on bounded inputs: head \o fill^n \o tail *)

MaxHead == 1
MaxTail == 2
Slack == 2

SanAlphabet == {"a", " ", ".", "(", "\n"}
FillChars == {"a", "."}
FillLens == {0} \cup ((max_len - Slack)..(max_len + 1))

SanInputs ==
    {h \o Repeat(f, n) \o t :
        h \in SeqsUpTo(SanAlphabet, MaxHead), f \in FillChars,
        n \in FillLens, t \in SeqsUpTo(SanAlphabet, MaxTail)}

SanIdle == sanPc = "idle" /\ sanIn = <<>> /\ sanOut = <<>> /\ sanTwice = <<>>
ExIdle == exPc = "idle" /\ exDoc = <<>> /\ exOut = <<>>
PrIdle == prPc = "idle" /\ prDir = {} /\ prBase = <<>> /\ prOut = <<>>
BatchIdle ==
    /\ pc = "idle" /\ is_dir = FALSE /\ dir = <<>> /\ pdf_files = {}
    /\ rename_count = 0 /\ fail_count = 0 /\ run = 0 /\ dir0 = <<>>
    /\ enumDir = <<>> /\ last = <<>> /\ outcome = <<>> /\ cleanRun = TRUE

SanInit ==
    /\ sanPc = "input" /\ sanIn \in SanInputs /\ sanOut = <<>> /\ sanTwice = <<>>
    /\ ExIdle /\ PrIdle /\ BatchIdle

\* clean_title = sanitize_filename(title)
SanitizeOnce ==
    /\ sanPc = "input"
    /\ sanOut' = sanitize_filename(sanIn)
    /\ sanPc' = "once"
    /\ UNCHANGED <<sanIn, sanTwice, exVars, prVars, batchVars>>

\* the result sanitized again
SanitizeAgain ==
    /\ sanPc = "once"
    /\ sanTwice' = sanitize_filename(sanOut)
    /\ sanPc' = "twice"
    /\ UNCHANGED <<sanIn, sanOut, exVars, prVars, batchVars>>

SanNext == SanitizeOnce \/ SanitizeAgain

SanSpec == SanInit /\ [][SanNext]_vars

\* the input is already free of banned characters and of whitespace runs,
\* so an index of the input is an index of the string that line 33 cuts
Normalised(s) == CollapseRuns(RemoveBanned(s), Whitespace) = s

\* every character of the input is removed by some step of the sanitizer
AllStrippable(s) ==
    \A i \in 1..Len(s) : s[i] \in Banned \cup Whitespace \cup {"."}

\* C3: the sanitized name holds no banned character, is at most 150 long,
\* does not end with a period or a space and is not empty; an input made only
\* of characters the sanitizer strips gives exactly "untitled"
C3_SanitizeSafe ==
    sanPc \in {"once", "twice"} =>
        /\ \A i \in 1..Len(sanOut) : sanOut[i] \notin Banned
        /\ Len(sanOut) <= max_len
        /\ Len(sanOut) > 0
        /\ sanOut[Len(sanOut)] \notin {".", " "}
        /\ (AllStrippable(sanIn) => sanOut = untitled)

\* a long input with a banned character whose cut at 150 leaves a trailing
\* period, sanitized to a proper name
C3_Witness ==
    /\ sanPc = "once"
    /\ Len(sanIn) > max_len
    /\ \E i \in 1..Len(sanIn) : sanIn[i] \in Banned
    /\ sanIn[Len(sanIn)] = "."
    /\ sanOut # untitled
    /\ Len(sanOut) = max_len - 1

\* C4: sanitize_filename(sanitize_filename(x)) = sanitize_filename(x)
C4_SanitizeIdempotent == sanPc = "twice" => sanTwice = sanOut

\* a string longer than 150 whose 150th character is a space or a period,
\* sanitized twice
C4_Witness ==
    /\ sanPc = "twice"
    /\ Len(sanIn) > max_len
    /\ Normalised(sanIn)
    /\ sanIn[max_len] \in {" ", "."}
    /\ Len(sanOut) < max_len

\* an input that sanitizes to the placeholder, sanitized twice
C4_PlaceholderReached ==
    sanPc = "twice" /\ sanIn # untitled /\ sanOut = untitled

-----------------------------------------------------------------------------
(* extract_pdf_title *)

\* Optional[str]
None == [some |-> FALSE, val |-> <<>>]
Some(v) == [some |-> TRUE, val |-> v]

\* the thresholds of line 77
TitleMinLen == 5
TitleMaxLen == 100

\* text.split('\n')
SplitLines(str) ==
    Only({Only({[k \in 1..(Len(cut) - 1) |-> SubSeq(text, cut[k] + 1, cut[k + 1] - 1)] :
                cut \in {<<0>> \o SelectSeq([i \in 1..Len(text) |-> i],
                                            LAMBDA i : text[i] = "\n")
                             \o <<Len(text) + 1>>}}) :
          text \in {str}})

\* line 73: [line.strip() for line in text.split('\n') if line.strip()]
NonEmptyLines(text) ==
    SelectSeq(Only({[k \in 1..Len(raw) |-> Strip(raw[k])] : raw \in {SplitLines(text)}}),
              LAMBDA l : l # <<>>)

\* line 77: 5 < len(line) < 100 and not line.isdigit()
LooksLikeTitle(line) ==
    TitleMinLen < Len(line) /\ Len(line) < TitleMaxLen /\ ~IsDigit(line)

RECURSIVE FirstTitleLine(_, _)
\* lines 75-83: the loop over the lines from index i, then the fallback
FirstTitleLine(lines, i) ==
    IF i > Len(lines)
    THEN IF lines # <<>> THEN Some(lines[1]) ELSE None
    ELSE IF LooksLikeTitle(lines[i]) THEN Some(lines[i])
         ELSE FirstTitleLine(lines, i + 1)

\* lines 68-86: the first page's text, when there is a page and it yields text
TitleFromFirstPage(doc) ==
    IF doc.pages = <<>> THEN None
    ELSE LET first_page == doc.pages[1]
         IN  IF first_page.raises THEN None        \* caught at line 84
             ELSE IF first_page.text = <<>> THEN None
             ELSE Only({FirstTitleLine(lines, 1) :
                          lines \in {NonEmptyLines(first_page.text)}})

\* lines 53-97 with the page text consulted before the metadata
extract_text_first(doc) ==
    IF ~doc.opens THEN None
    ELSE LET t == TitleFromFirstPage(doc)
         IN  IF t.some THEN t
             ELSE IF doc.meta.present /\ doc.meta.title.some
                     /\ Strip(doc.meta.title.val) # <<>>
                  THEN Some(Strip(doc.meta.title.val))
                  ELSE None

\* a document is what PdfReader shows of a file: whether it opens and parses,
\* its metadata (absent, or with an optional title) and its pages
extract_pdf_title(doc) ==
    IF ~doc.opens THEN None                        \* lines 88-97
    ELSE IF doc.meta.present /\ doc.meta.title.some /\ doc.meta.title.val # <<>>
            /\ Strip(doc.meta.title.val) # <<>>
         THEN Some(Strip(doc.meta.title.val))
         ELSE TitleFromFirstPage(doc)

-----------------------------------------------------------------------------
(* The extractor on bounded documents *)

MaxLines == 2

LineLens == {TitleMinLen, TitleMinLen + 1, TitleMaxLen - 1, TitleMaxLen}

LineSet ==
    {<<>>, <<" ">>} \cup
    {pad \o Repeat(c, n) \o pad :
        pad \in {<<>>, <<" ">>}, c \in {"a", "7"}, n \in LineLens}

RECURSIVE JoinLines(_)
\* the lines of a page joined by line breaks
JoinLines(ls) ==
    IF ls = <<>> THEN <<>>
    ELSE IF Len(ls) = 1 THEN ls[1]
    ELSE ls[1] \o <<"\n">> \o JoinLines(Tail(ls))

PageTexts == {JoinLines(ls) : ls \in SeqsUpTo(LineSet, MaxLines)}

MyPaper == <<"M", "y", " ", "P", "a", "p", "e", "r">>

MetaSet ==
    {[present |-> FALSE, title |-> None],
     [present |-> TRUE, title |-> None],
     [present |-> TRUE, title |-> Some(<<>>)],
     [present |-> TRUE, title |-> Some(<<" ", "\t">>)],
     [present |-> TRUE, title |-> Some(<<" ", " ">> \o MyPaper \o <<" ", " ">>)]}

\* a later page, whose text would make a fine title
SecondPage == [raises |-> FALSE, text |-> Repeat("b", TitleMinLen + 1)]

PageSeqs ==
    {<<>>} \cup
    {<<[raises |-> TRUE, text |-> <<>>]>>, <<[raises |-> TRUE, text |-> <<>>], SecondPage>>}
    \cup {<<[raises |-> FALSE, text |-> t]>> : t \in PageTexts}
    \cup {<<[raises |-> FALSE, text |-> t], SecondPage>> : t \in PageTexts}

ExDocs == [opens : BOOLEAN, meta : MetaSet, pages : PageSeqs]

ExInit ==
    /\ exPc = "input" /\ exDoc \in ExDocs /\ exOut = None
    /\ SanIdle /\ PrIdle /\ BatchIdle

\* title = extract_pdf_title(pdf_path)
Extract ==
    /\ exPc = "input"
    /\ exOut' = extract_pdf_title(exDoc)
    /\ exPc' = "done"
    /\ UNCHANGED <<exDoc, sanVars, prVars, batchVars>>

ExNext == Extract

ExSpec == ExInit /\ [][ExNext]_vars

\* the metadata title after trimming, <<>> when there is none
TrimmedMetaTitle(doc) ==
    IF doc.meta.present /\ doc.meta.title.some THEN Strip(doc.meta.title.val)
    ELSE <<>>

\* the trimmed non-empty lines of the first page, <<>> when it yields none
FirstPageLines(doc) ==
    IF doc.pages = <<>> \/ doc.pages[1].raises THEN <<>>
    ELSE NonEmptyLines(doc.pages[1].text)

\* C5: the trimmed metadata title when it is not empty; otherwise the first
\* line of the first page longer than 5 and shorter than 100 that is not all
\* digits; otherwise the first non-empty line; otherwise (or when the file
\* does not open or parse, or the text extraction fails) None
C5_ExtractPriority ==
    exPc = "done" =>
        LET m == TrimmedMetaTitle(exDoc)
            L == FirstPageLines(exDoc)
            Q == {i \in 1..Len(L) :
                    Len(L[i]) > 5 /\ Len(L[i]) < 100
                    /\ \E k \in 1..Len(L[i]) : L[i][k] \notin Digits}
        IN  IF ~exDoc.opens THEN exOut = None
            ELSE IF m # <<>> THEN exOut = Some(m)
            ELSE IF Q # {}
                 THEN \E i \in Q : exOut = Some(L[i]) /\ \A j \in Q : i <= j
            ELSE IF L # <<>> THEN exOut = Some(L[1])
            ELSE exOut = None

\* no metadata title, a first line that does not qualify, a second one that
\* does and is returned
C5_Witness ==
    /\ exPc = "done" /\ exDoc.opens
    /\ TrimmedMetaTitle(exDoc) = <<>>
    /\ Len(FirstPageLines(exDoc)) = 2
    /\ IsDigit(FirstPageLines(exDoc)[1])
    /\ exOut = Some(FirstPageLines(exDoc)[2])
    /\ exOut # Some(FirstPageLines(exDoc)[1])

\* a metadata title that wins over a first page with a fine title line
C5_MetaWins ==
    /\ exPc = "done" /\ exOut = Some(MyPaper)
    /\ FirstPageLines(exDoc) # <<>>

\* no line qualifies and the first non-empty line is returned
C5_Fallback ==
    /\ exPc = "done" /\ exDoc.opens /\ TrimmedMetaTitle(exDoc) = <<>>
    /\ Len(FirstPageLines(exDoc)) = 2
    /\ FirstPageLines(exDoc)[1] # FirstPageLines(exDoc)[2]
    /\ exOut = Some(FirstPageLines(exDoc)[1])

-----------------------------------------------------------------------------
(* find_available_filename *)

\* f"{base_name}_{counter}{extension}"
Numbered(base_name, counter, extension) ==
    base_name \o <<"_">> \o DecimalDigits(counter) \o extension

RECURSIVE ProbeFrom(_, _, _, _)
\* lines 114-117: the loop, entered with the next counter to try; names is
\* the set of names for which new_path.exists() holds
ProbeFrom(names, base_name, extension, counter) ==
    LET new_filename == Numbered(base_name, counter, extension)
    IN  IF new_filename \in names
        THEN ProbeFrom(names, base_name, extension, counter + 1)
        ELSE new_filename

\* lines 111-118 with the loop run at most once
find_with_one_retry(names, base_name, extension) ==
    IF (base_name \o extension) \in names
    THEN Numbered(base_name, 1, extension)
    ELSE base_name \o extension

\* lines 111-118 without the existence check
find_without_probe(names, base_name, extension) == base_name \o extension

\* lines 111-118; names is the set of names of the directory, and
\* new_path.exists() is taken to answer for every name tried (the names of
\* the model are short; a name beyond the file system's length limit is
\* outside it).  The call reads the directory and writes nothing.
find_available_filename(names, base_name, extension) ==
    IF (base_name \o extension) \in names
    THEN ProbeFrom(names, base_name, extension, 1)
    ELSE base_name \o extension

-----------------------------------------------------------------------------
(* The probe on bounded directories *)

MaxProbe == 10

pdf == <<".", "p", "d", "f">>
report == <<"r", "e", "p", "o", "r", "t">>

\* report.pdf, report_1.pdf .. report_<MaxProbe>.pdf and names that only
\* look like them
ProbeNames ==
    {report \o pdf, report \o <<"_", "1", "_", "1">> \o pdf,
     report \o <<"_", "0", "1">> \o pdf, report \o <<"_", "1">>}
    \cup {Numbered(report, k, pdf) : k \in 1..MaxProbe}

PrInit ==
    /\ prPc = "input" /\ prDir \in SUBSET ProbeNames
    /\ prBase \in {report, report \o <<"_", "1">>} /\ prOut = <<>>
    /\ SanIdle /\ ExIdle /\ BatchIdle

\* new_path = find_available_filename(folder_path, clean_title, suffix)
Probe ==
    /\ prPc = "input"
    /\ prOut' = find_available_filename(prDir, prBase, pdf)
    /\ prPc' = "done"
    /\ UNCHANGED <<prDir, prBase, sanVars, exVars, batchVars>>

PrNext == Probe

PrSpec == PrInit /\ [][PrNext]_vars

\* C2: base+ext when that name is absent; otherwise base_k+ext for the
\* smallest k >= 1 whose name is absent; the probe ends and its result is
\* not a name of the directory
C2_ProbeSmallestFree ==
    prPc = "done" =>
        /\ prOut \notin prDir
        /\ (prBase \o pdf) \notin prDir => prOut = prBase \o pdf
        /\ (prBase \o pdf) \in prDir =>
              \E k \in 1..(Cardinality(prDir) + 1) :
                  /\ prOut = prBase \o <<"_">> \o DecimalDigits(k) \o pdf
                  /\ \A j \in 1..(k - 1) :
                        (prBase \o <<"_">> \o DecimalDigits(j) \o pdf) \in prDir

\* report.pdf and report_1.pdf exist and report_2.pdf is returned
C2_Witness ==
    /\ prPc = "done" /\ prBase = report
    /\ {report \o pdf, report \o <<"_", "1">> \o pdf} \subseteq prDir
    /\ prOut = report \o <<"_", "2">> \o pdf

\* the probe passes 9 and returns a name with a two-digit counter
C2_TwoDigits ==
    prPc = "done" /\ prOut = report \o <<"_", "1", "0">> \o pdf

-----------------------------------------------------------------------------
(* rename_pdfs_in_folder *)

\* str.rfind('.'): the last index of a period, 0 when there is none
LastDot(name) ==
    LET dots == {i \in 1..Len(name) : name[i] = "."}
    IN  IF dots = {} THEN 0 ELSE CHOOSE i \in dots : \A j \in dots : j <= i

\* PurePath.suffix: from the last period, unless it leads or ends the name
Suffix(name) ==
    LET i == LastDot(name)
    IN  IF 1 < i /\ i < Len(name) THEN SubSeq(name, i, Len(name)) ELSE <<>>

\* PurePath.stem
Stem(name) ==
    LET i == LastDot(name)
    IN  IF 1 < i /\ i < Len(name) THEN SubSeq(name, 1, i - 1) ELSE name

\* folder_path.glob('*.pdf'): the names of the directory that end in .pdf,
\* listed when the iteration starts
Glob(d) ==
    {n \in DOMAIN d :
        Len(n) >= Len(pdf) /\ SubSeq(n, Len(n) - Len(pdf) + 1, Len(n)) = pdf}

\* lines 142-153 without the comparison of line 151
SkipsOnlyPlaceholder(clean_title, stem) ==
    \/ (clean_title = untitled /\ stem = untitled)
    \/ clean_title = <<>>

\* lines 142-153: the three tests that end the iteration without a rename
Skips(clean_title, stem) ==
    \/ (clean_title = untitled /\ stem = untitled)
    \/ clean_title = <<>>
    \/ clean_title = stem

\* pdf_path.rename(new_path) when it succeeds: the entry moves to the new
\* name, replacing an entry already there (POSIX rename)
Rename(d, old, new) ==
    [n \in (DOMAIN d \ {old}) \cup {new} |-> IF n = new THEN d[old] ELSE d[n]]

\* lines 160-169: fail_count after an iteration of the given kind
FailCountAfter(kind, count) ==
    IF kind \in {"no_title", "rename_failed"} THEN count + 1 ELSE count

\* a loop that stops at the first file it cannot rename
RemainingAfterAbort(files, pdf_path, it) ==
    IF it.kind \in {"no_title", "rename_failed"} THEN {} ELSE files \ {pdf_path}

\* a generator that follows the directory as it changes and also yields the
\* names created after the loop began
RemainingLive(files, pdf_path, it) ==
    (files \ {pdf_path}) \cup (IF it.kind = "renamed" THEN {it.new_path} ELSE {})

\* line 136: the files the generator has still to yield after pdf_path; the
\* listing was taken before the first iteration
Remaining(files, pdf_path, it) == files \ {pdf_path}

-----------------------------------------------------------------------------
(* The batch on bounded directories *)

MaxFiles == 3
MaxRuns == 2

Foo == <<"F", "o", "o">>

NoMeta == [present |-> FALSE, title |-> None]

\* the contents a file of the batch can have, each named by a key: a title
\* in the metadata (with blanks around it), a title made of banned
\* characters, a title read from the first page, and a file that does not
\* parse
ContentKeys == {"meta_Foo", "meta_banned", "page_b", "corrupt"}

\* the document PdfReader shows for a content
DocOf(key) ==
    CASE key = "meta_Foo" ->
            [opens |-> TRUE, pages |-> <<>>,
             meta |-> [present |-> TRUE, title |-> Some(<<" ">> \o Foo \o <<" ">>)]]
      [] key = "meta_banned" ->
            [opens |-> TRUE, pages |-> <<>>,
             meta |-> [present |-> TRUE, title |-> Some(<<"?", ":">>)]]
      [] key = "page_b" ->
            [opens |-> TRUE, meta |-> NoMeta,
             pages |-> <<[raises |-> FALSE, text |-> <<" ", "\n", "b", "\n", "7">>]>>]
      [] key = "corrupt" ->
            [opens |-> FALSE, meta |-> NoMeta, pages |-> <<>>]

InitNames ==
    {<<"a">> \o pdf, <<"b">> \o pdf, Foo \o pdf, Foo \o <<"_", "1">> \o pdf,
     untitled \o pdf}

\* a directory: file name |-> the file, which keeps the name it had at the
\* start as its identity and has a content
Directories ==
    UNION {[S -> ContentKeys] : S \in {T \in SUBSET InitNames : Cardinality(T) <= MaxFiles}}

NoIteration ==
    [kind |-> "none", name |-> <<>>, before |-> <<>>, new_path |-> <<>>, renames |-> 0]

BatchInit ==
    /\ pc = "ready"
    /\ is_dir \in BOOLEAN
    /\ \E d \in Directories :
          /\ is_dir = FALSE => d = <<>>
          /\ dir = [n \in DOMAIN d |-> [id |-> n, content |-> d[n]]]
    /\ dir0 = dir
    /\ pdf_files = {} /\ rename_count = 0 /\ fail_count = 0
    /\ run = 0 /\ enumDir = <<>> /\ last = NoIteration
    /\ outcome = <<>> /\ cleanRun = TRUE
    /\ SanIdle /\ ExIdle /\ PrIdle

\* lines 127-130: the path is not a directory; nothing is processed
Reject ==
    /\ pc = "ready" /\ ~is_dir
    /\ pc' = "rejected"
    /\ UNCHANGED <<is_dir, dir, pdf_files, rename_count, fail_count, run, dir0,
                   enumDir, last, outcome, cleanRun, sanVars, exVars, prVars>>

\* lines 132-134: the generator and the counters of a call; the generator
\* lists the directory when the loop asks for its first item
StartRun ==
    /\ pdf_files' = Glob(dir)
    /\ rename_count' = 0 /\ fail_count' = 0
    /\ pc' = "loop"
    /\ run' = run + 1
    /\ enumDir' = dir
    /\ last' = NoIteration
    /\ outcome' = [i \in {dir[n].id : n \in DOMAIN dir} |-> <<>>]
    /\ UNCHANGED <<is_dir, dir, dir0, cleanRun, sanVars, exVars, prVars>>

\* lines 127-134: rename_pdfs_in_folder called on a directory
Start == pc = "ready" /\ is_dir /\ StartRun

\* the script run again on the same directory after it has finished
Restart == pc = "done" /\ run < MaxRuns /\ StartRun

\* what one iteration (lines 137-169) does to the file pdf_path; os_ok tells
\* whether the operating system carries out the rename
IterationOf(pdf_path, os_ok, title, clean_title) ==
    IF ~title.some \/ title.val = <<>>                      \* lines 140, 167-169
    THEN [kind |-> "no_title", name |-> pdf_path, before |-> dir,
          new_path |-> <<>>, renames |-> 0]
    ELSE IF Skips(clean_title, Stem(pdf_path))              \* lines 142-153
    THEN [kind |-> "skipped", name |-> pdf_path, before |-> dir,
          new_path |-> <<>>, renames |-> 0]
    ELSE [kind |-> IF os_ok THEN "renamed" ELSE "rename_failed",   \* lines 155-166
          name |-> pdf_path, before |-> dir,
          new_path |-> find_available_filename(DOMAIN dir, clean_title, Suffix(pdf_path)),
          renames |-> 1]

\* lines 138 and 141 for each content: the title extracted from a file and
\* its sanitized form depend on the content alone
TitleOf[key \in ContentKeys] == extract_pdf_title(DocOf(key))
CleanTitleOf[key \in ContentKeys] == sanitize_filename(TitleOf[key].val)

Iteration(pdf_path, os_ok) ==
    IterationOf(pdf_path, os_ok, TitleOf[dir[pdf_path].content],
                CleanTitleOf[dir[pdf_path].content])

\* lines 136-169: one iteration of the loop, on any file the generator has
\* still to yield (a directory listing has no fixed order)
ProcessFile ==
    /\ pc = "loop"
    /\ \E pdf_path \in pdf_files, os_ok \in BOOLEAN :
          \E it \in {Iteration(pdf_path, os_ok)} :
              /\ it.kind \notin {"renamed", "rename_failed"} => os_ok
              /\ last' = it
              /\ dir' = IF it.kind = "renamed"
                        THEN Rename(dir, pdf_path, it.new_path) ELSE dir
              /\ rename_count' = IF it.kind = "renamed"
                                 THEN rename_count + 1 ELSE rename_count
              /\ fail_count' = FailCountAfter(it.kind, fail_count)
              /\ pdf_files' = Remaining(pdf_files, pdf_path, it)
              /\ outcome' = [i \in DOMAIN outcome \cup {dir[pdf_path].id} |->
                                IF i = dir[pdf_path].id
                                THEN (IF i \in DOMAIN outcome THEN outcome[i] ELSE <<>>)
                                     \o <<it.kind>>
                                ELSE outcome[i]]
              /\ cleanRun' = (cleanRun /\ it.kind # "rename_failed")
    /\ UNCHANGED <<pc, is_dir, run, dir0, enumDir, sanVars, exVars, prVars>>

\* line 171: the generator is exhausted and the summary is logged
Finish ==
    /\ pc = "loop" /\ pdf_files = {}
    /\ pc' = "done"
    /\ UNCHANGED <<is_dir, dir, pdf_files, rename_count, fail_count, run, dir0,
                   enumDir, last, outcome, cleanRun, sanVars, exVars, prVars>>

Next == Reject \/ Start \/ ProcessFile \/ Finish

Init == BatchInit

\* one call of rename_pdfs_in_folder
Spec == Init /\ [][Next]_vars

\* the program is sequential and runs on: a call that has started goes on
\* to its next iteration and to its summary
FairSpec == Spec /\ WF_vars(ProcessFile) /\ WF_vars(Finish)

RerunNext == Next \/ Restart

\* the script run up to MaxRuns times in a row on the same directory
RerunSpec == Init /\ [][RerunNext]_vars

-----------------------------------------------------------------------------
(* Claims about the batch *)

Failures == {"no_title", "rename_failed"}

\* the files of directory d, by identity
Ids(d) == {d[n].id : n \in DOMAIN d}

\* the name under which directory d holds the file i
NameOf(d, i) == CHOOSE n \in DOMAIN d : d[n].id = i

TwoFoos ==
    [n \in {<<"a">> \o pdf, <<"b">> \o pdf} |-> [id |-> n, content |-> "meta_Foo"]]

\* C1: no rename targets a name that exists; after every step each file of
\* the start is present under exactly one name with its content; a.pdf and
\* b.pdf, both titled Foo, end as Foo.pdf and Foo_1.pdf
C1_NoOverwrite ==
    /\ Ids(dir) = DOMAIN dir0
    /\ Cardinality(DOMAIN dir) = Cardinality(DOMAIN dir0)
    /\ \A n \in DOMAIN dir : dir[n].content = dir0[dir[n].id].content
    /\ last.renames = 1 => last.new_path \notin DOMAIN last.before
    /\ (pc = "done" /\ dir0 = TwoFoos /\ cleanRun) =>
          DOMAIN dir = {Foo \o pdf, Foo \o <<"_", "1">> \o pdf}

\* the example of the spec, run to its end
C1_Witness ==
    /\ pc = "done" /\ dir0 = TwoFoos
    /\ DOMAIN dir = {Foo \o pdf, Foo \o <<"_", "1">> \o pdf}
    /\ rename_count = 2

\* C6 (state part): a file whose extraction or rename failed keeps its name
\* and is counted as failed, and when the summary is reached every file that
\* was enumerated has been processed
BatchAbsorbsFailures ==
    pc \in {"loop", "done"} =>
        /\ \A i \in DOMAIN outcome :
              (outcome[i] # <<>> /\ outcome[i][1] \in Failures) =>
                  /\ NameOf(enumDir, i) \in DOMAIN dir
                  /\ dir[NameOf(enumDir, i)].id = i
        /\ last.kind \in Failures => dir = last.before
        /\ fail_count >=
              Cardinality({i \in DOMAIN outcome :
                              outcome[i] # <<>> /\ outcome[i][1] \in Failures})
        /\ pc = "done" =>
              \A n \in Glob(enumDir) : outcome[enumDir[n].id] # <<>>

C7_SummaryAccountsForAll ==
    pc = "done" =>
        /\ rename_count + fail_count = Cardinality(Glob(enumDir))
        /\ rename_count =
              Cardinality({n \in DOMAIN enumDir : NameOf(dir, enumDir[n].id) # n})
        /\ fail_count =
              Cardinality({i \in DOMAIN outcome :
                              outcome[i] # <<>> /\ outcome[i][1] # "renamed"})

\* the condition under which C8 says the file is left untouched, written
\* from the title and the name as the iteration found them
Untouchable(name, before) ==
    LET t == extract_pdf_title(DocOf(before[name].content))
        c == sanitize_filename(t.val)
    IN  \/ ~t.some
        \/ c = Stem(name)
        \/ (c = untitled /\ Stem(name) = untitled)

\* C8: an iteration leaves the directory as it was and attempts no rename
\* when extraction returns nothing, or the sanitized title is the current
\* base name, or both are the placeholder; otherwise it attempts exactly one
\* rename of that file, to the resolved path
C8_SkipFrame ==
    last.kind # "none" =>
        IF Untouchable(last.name, last.before)
        THEN last.renames = 0 /\ last.new_path = <<>> /\ dir = last.before
        ELSE LET t == extract_pdf_title(DocOf(last.before[last.name].content))
                 target == find_available_filename(DOMAIN last.before,
                               sanitize_filename(t.val), Suffix(last.name))
             IN  /\ last.renames = 1
                 /\ last.new_path = target
                 /\ \/ dir = last.before
                    \/ /\ DOMAIN dir = (DOMAIN last.before \ {last.name}) \cup {target}
                       /\ dir[target] = last.before[last.name]
                       /\ \A n \in DOMAIN dir \ {target} : dir[n] = last.before[n]

\* a file already named after its title, skipped with the directory intact
C8_Witness ==
    /\ last.kind = "skipped"
    /\ last.name = Foo \o pdf
    /\ dir = last.before
    /\ Cardinality(DOMAIN dir) >= 2

\* untitled.pdf with a title of banned characters only, skipped
C8_PlaceholderSkipped ==
    last.kind = "skipped" /\ last.name = untitled \o pdf

\* C9: in one run each file is processed at most once; a name waiting to be
\* processed denotes the file it denoted when the directory was enumerated;
\* a resolved path is a name absent at enumeration or one already processed
\* and vacated
C9_ProcessedOnce ==
    pc \in {"loop", "done"} =>
        /\ \A i \in DOMAIN outcome : Len(outcome[i]) <= 1
        /\ \A n \in pdf_files :
              /\ n \in DOMAIN dir /\ n \in DOMAIN enumDir
              /\ dir[n] = enumDir[n]
              /\ outcome[dir[n].id] = <<>>
        /\ last.renames = 1 =>
              /\ last.new_path \notin pdf_files
              /\ \/ last.new_path \notin DOMAIN enumDir
                 \/ /\ outcome[enumDir[last.new_path].id] # <<>>
                    /\ last.new_path \notin DOMAIN last.before

\* a file renamed to a name that another file had at enumeration and has
\* given up since
C9_Witness ==
    /\ pc = "loop" /\ pdf_files # {}
    /\ last.kind = "renamed"
    /\ last.new_path \in DOMAIN enumDir
    /\ enumDir[last.new_path].id # dir[last.new_path].id

\* C10: after a run without a rename failure, a second run renames nothing
C10_SecondRunRenamesNothing ==
    (run >= 2 /\ cleanRun) => rename_count = 0

=============================================================================
